---- MODULE Spec2Model ----
(***************************************************************************)
(* Model of the interoperability shims of ghostree:                        *)
(*   pkg/dcimgui/ext.cpp                                                    *)
(*     - ImFontConfig_ImFontConfig, ImGuiStyle_ImGuiStyle (struct shims     *)
(*       behind static_asserts on size and alignment)                       *)
(*     - ImGui_ImplOpenGL3_ShutdownWithLoaderCleanup (backend shutdown      *)
(*       followed by zeroing the imgl3w function pointer table)             *)
(*   macos/Sources/Helpers/ObjCExceptionCatcher.h                           *)
(*     - GhosttyAddTabbedWindowSafely (declaration only)                    *)
(*                                                                          *)
(* Specifications:                                                          *)
(*   Spec       the loader table under serialized init / shutdown calls     *)
(*   SpecConc   the same with the two statements of the shutdown shim as    *)
(*              separate steps, an init call free to run between them       *)
(*   SpecShim   the build (static_asserts) and the two struct shims         *)
(*   SpecAttach the exception-catching window attach wrapper                *)
(***************************************************************************)
EXTENDS Integers, Sequences, FiniteSets, TLC

VARIABLES
    \* ---- loader table (ext.cpp:31-48) ----
    imgl3wProcs,   \* the global function pointer table: slot -> address
    libgl,         \* the GL library handle the loader holds: 0 closed, g open
    loads,         \* number of dlopens so far; load g resolves addresses g
    hist,          \* the last calls made, oldest first
    initObs,       \* what the last init call saw in the table
    preProcs,      \* table at entry of the last shutdown shim call
    midProcs,      \* table between its two statements
    callLog,       \* callees of the last shutdown shim call, in order
    crashed,       \* a call went through a dangling pointer and faulted
    \* ---- two-step shutdown (SpecConc) ----
    pcS,           \* position inside ShutdownWithLoaderCleanup
    overlapped,    \* the last init call ran inside a shutdown shim call
    \* ---- struct shims (ext.cpp:15-29) ----
    mirror,        \* type -> layout of the cimgui:: mirrored struct
    build,         \* "pending", "ok" or "failed"
    mem,           \* type -> contents of the caller's struct
    held,          \* type -> contents of mem[type] when its shim was entered
    shimRan,       \* type -> the shim constructor has run on mem[type]
    \* ---- window attach (ObjCExceptionCatcher.h) ----
    tabs,          \* window -> the parent and order it is tabbed with, or NoTab
    call,          \* arguments and platform outcome of the last attach call
    ret,           \* its return value
    errSlot,       \* contents of the caller's NSError* slot
    escaped        \* an exception left the wrapper

loaderVars == <<imgl3wProcs, libgl, loads, hist, initObs, preProcs, midProcs,
                callLog, crashed>>
concVars   == <<pcS, overlapped>>
shimVars   == <<mirror, build, mem, held, shimRan>>
attachVars == <<tabs, call, ret, errSlot, escaped>>
vars       == <<loaderVars, concVars, shimVars, attachVars>>

----------------------------------------------------------------------------
(* Bounds *)

\* number of slots of the pointer table that are modelled
NumProcs == 3
\* number of times the GL library can be loaded in one run
MaxLoads == 3
\* number of calls remembered in hist
HistLen == 3
\* largest value of a byte of struct memory
MaxByte == 1
\* number of window handles
NumWindows == 2

----------------------------------------------------------------------------
(* Loader table *)

\* memset(&imgl3wProcs, 0, ...): the null pointer
NULL == 0

Slots == 1..NumProcs

\* The table in static storage before any call.
EmptyTable == [i \in Slots |-> NULL]

NonNull(t) == {i \in Slots : t[i] # NULL}

\* An address is valid while the library it was resolved from is open.
Valid(a, lib) == a # NULL /\ lib # 0 /\ a = lib
Stale(a, lib) == a # NULL /\ a # lib
HasStale(t, lib) == \E i \in Slots : Stale(t[i], lib)

\* "A subsequent ImGui_ImplOpenGL3_Init() sees the stale (non-null)
\*  pointers, skips loader re-initialization": init decides on non-nullness.
LooksLoaded(t) == NonNull(t) # {}

\* What an init call finds in the table.
Observe(t, lib) ==
    IF ~LooksLoaded(t) THEN "null"
    ELSE IF HasStale(t, lib) THEN "stale" ELSE "valid"

\* imgl3wInit(): dlopen number gen resolves the entry points in S.
imgl3wInit(gen, S) == [i \in Slots |-> IF i \in S THEN gen ELSE NULL]

\* The outcomes of a load: no library (the empty set) or the set of entry
\* points the library resolves.
LoadOutcomes == SUBSET Slots

\* ImGui_ImplOpenGL3_Shutdown() -> imgl3wShutdown(): "dlcloses the GL
\* library handles but does not zero out the function pointers".
BackendShutdownProcs(t) == t
BackendShutdownLib(lib) == 0

\* A memset given the size of one pointer instead of the size of the table.
ZeroTableOnePointer(t) == [i \in Slots |-> IF i = 1 THEN NULL ELSE t[i]]

\* memset(&imgl3wProcs, 0, sizeof(imgl3wProcs))
ZeroTable(t) == [i \in Slots |-> NULL]

Remember(h, e) ==
    IF Len(h) < HistLen THEN Append(h, e) ELSE Append(Tail(h), e)

InitLoader ==
    /\ imgl3wProcs = EmptyTable
    /\ libgl = 0
    /\ loads = 0
    /\ hist = << >>
    /\ initObs = "none"
    /\ preProcs = EmptyTable
    /\ midProcs = EmptyTable
    /\ callLog = << >>
    /\ crashed = FALSE

InitConc ==
    /\ pcS = "idle"
    /\ overlapped = FALSE

\* ImGui_ImplOpenGL3_Init(): skips the loader when the table looks loaded,
\* else runs imgl3wInit(). A skipped load over stale pointers calls through
\* them: undefined behaviour, which either faults or goes unnoticed.
ImGui_ImplOpenGL3_Init ==
    /\ ~crashed
    /\ initObs' = Observe(imgl3wProcs, libgl)
    /\ overlapped' = (pcS # "idle")
    /\ IF LooksLoaded(imgl3wProcs)
       THEN /\ UNCHANGED <<imgl3wProcs, libgl, loads>>
            /\ hist' = Remember(hist, [op |-> "init", skipped |-> TRUE, gen |-> 0])
            /\ crashed' \in (IF HasStale(imgl3wProcs, libgl) THEN BOOLEAN ELSE {FALSE})
       ELSE /\ loads < MaxLoads
            /\ \E S \in LoadOutcomes :
                 IF S = {}
                 THEN /\ UNCHANGED <<imgl3wProcs, libgl, loads>>
                      /\ hist' = Remember(hist, [op |-> "init", skipped |-> FALSE, gen |-> 0])
                 ELSE /\ loads' = loads + 1
                      /\ libgl' = loads + 1
                      /\ imgl3wProcs' = imgl3wInit(loads + 1, S)
                      /\ hist' = Remember(hist, [op |-> "init", skipped |-> FALSE, gen |-> loads + 1])
            /\ crashed' = FALSE
    /\ UNCHANGED <<preProcs, midProcs, callLog, pcS>>
    /\ UNCHANGED <<shimVars, attachVars>>

\* The shim without its memset: the plain backend shutdown.
ShutdownBodyNoMemset(t) == <<"ImGui_ImplOpenGL3_Shutdown">>

\* The shim with its memset under a test of the table.
ShutdownBodyGuarded(t) ==
    IF NonNull(t) # {}
    THEN <<"ImGui_ImplOpenGL3_Shutdown", "memset">>
    ELSE <<"ImGui_ImplOpenGL3_Shutdown">>

\* The statements ImGui_ImplOpenGL3_ShutdownWithLoaderCleanup() executes when
\* entered with table t: both, in this order, whatever t holds.
ShutdownBody(t) == <<"ImGui_ImplOpenGL3_Shutdown", "memset">>

\* One statement of the body on the loader state s = [procs, lib].
Exec(stmt, s) ==
    IF stmt = "ImGui_ImplOpenGL3_Shutdown"
    THEN [procs |-> BackendShutdownProcs(s.procs), lib |-> BackendShutdownLib(s.lib)]
    ELSE [procs |-> ZeroTable(s.procs), lib |-> s.lib]

RECURSIVE Run(_, _)
Run(body, s) ==
    IF body = << >> THEN s ELSE Run(Tail(body), Exec(Head(body), s))

Prefix(body, n) == SubSeq(body, 1, IF n < Len(body) THEN n ELSE Len(body))
Suffix(body, n) == SubSeq(body, n + 1, Len(body))

\* ImGui_ImplOpenGL3_ShutdownWithLoaderCleanup(), the whole call.
ImGui_ImplOpenGL3_ShutdownWithLoaderCleanup ==
    /\ ~crashed
    /\ pcS = "idle"
    /\ LET body == ShutdownBody(imgl3wProcs)
           s0   == [procs |-> imgl3wProcs, lib |-> libgl]
           s1   == Run(Prefix(body, 1), s0)
           s2   == Run(body, s0)
       IN /\ preProcs' = imgl3wProcs
          /\ midProcs' = s1.procs
          /\ imgl3wProcs' = s2.procs
          /\ libgl' = s2.lib
          /\ callLog' = body
    /\ hist' = Remember(hist, [op |-> "shutdown", skipped |-> FALSE, gen |-> 0])
    /\ UNCHANGED <<loads, initObs, crashed>>
    /\ UNCHANGED <<concVars, shimVars, attachVars>>

\* Line 46 of the shim alone: the call is entered and the backend shut down.
ShutdownEnter ==
    /\ ~crashed
    /\ pcS = "idle"
    /\ LET body == ShutdownBody(imgl3wProcs)
           s1   == Run(Prefix(body, 1), [procs |-> imgl3wProcs, lib |-> libgl])
       IN /\ preProcs' = imgl3wProcs
          /\ midProcs' = s1.procs
          /\ imgl3wProcs' = s1.procs
          /\ libgl' = s1.lib
          /\ callLog' = Prefix(body, 1)
    /\ pcS' = "line47"
    /\ UNCHANGED <<loads, hist, initObs, crashed, overlapped>>
    /\ UNCHANGED <<shimVars, attachVars>>

\* Line 47 of the shim alone: the rest of the body runs and the call returns.
ShutdownLeave ==
    /\ ~crashed
    /\ pcS = "line47"
    /\ LET rest == Suffix(ShutdownBody(preProcs), 1)
           s2   == Run(rest, [procs |-> imgl3wProcs, lib |-> libgl])
       IN /\ imgl3wProcs' = s2.procs
          /\ libgl' = s2.lib
          /\ callLog' = callLog \o rest
    /\ hist' = Remember(hist, [op |-> "shutdown", skipped |-> FALSE, gen |-> 0])
    /\ pcS' = "idle"
    /\ UNCHANGED <<loads, initObs, preProcs, midProcs, crashed, overlapped>>
    /\ UNCHANGED <<shimVars, attachVars>>

----------------------------------------------------------------------------
(* Struct shims *)

Types == {"ImFontConfig", "ImGuiStyle"}
Bytes == 0..MaxByte

\* sizeof(::T) and alignof(::T) of the library's own structs, in abstract
\* units: what the static_asserts compare against.
NativeLayout(T) ==
    IF T = "ImFontConfig" THEN [size |-> 2, align |-> 2]
                          ELSE [size |-> 4, align |-> 2]

\* sizeof(cimgui::T) and alignof(cimgui::T): whatever the binding generator
\* emitted for the mirrored struct.
MirrorLayouts == [size : {2, 4}, align : {1, 2}]

\* "::ImFontConfig defaults;" / "::ImGuiStyle defaults;": the bytes of a
\* default-constructed native struct (a constructor that sets some fields
\* and clears the others).
NativeDefault(T) ==
    IF T = "ImFontConfig"
    THEN [i \in 1..NativeLayout(T).size |-> i % 2]
    ELSE [i \in 1..NativeLayout(T).size |-> IF i = 1 THEN 1 ELSE 0]

\* static_assert on the size alone.
StaticAssertsSizeOnly(T) == mirror[T].size = NativeLayout(T).size

\* The two static_asserts of a shim: size and alignment of the mirrored
\* struct equal those of the native one.
StaticAsserts(T) ==
    /\ mirror[T].size = NativeLayout(T).size
    /\ mirror[T].align = NativeLayout(T).align

\* An assignment that leaves the last byte of the target as it was.
AssignShort(self, defaults) ==
    [i \in 1..Len(self) |->
        IF i < Len(defaults) THEN defaults[i] ELSE self[i]]

\* "*reinterpret_cast<::T*>(self) = defaults;": the bytes of defaults are
\* written over the struct at self.
Assign(self, defaults) ==
    [i \in 1..Len(self) |->
        IF i <= Len(defaults) THEN defaults[i] ELSE self[i]]

InitShim ==
    /\ mirror \in [Types -> MirrorLayouts]
    /\ build = "pending"
    /\ mem \in {m \in [Types -> UNION {[1..n -> Bytes] : n \in {2, 4}}] :
                  \A T \in Types : Len(m[T]) = mirror[T].size}
    /\ held = mem
    /\ shimRan = [T \in Types |-> FALSE]

InitShimIdle ==
    /\ mirror = [T \in Types |-> NativeLayout(T)]
    /\ build = "pending"
    /\ mem = [T \in Types |-> NativeDefault(T)]
    /\ held = mem
    /\ shimRan = [T \in Types |-> FALSE]

\* Compiling ext.cpp: a failed static_assert fails the build.
Build ==
    /\ build = "pending"
    /\ build' = IF \A T \in Types : StaticAsserts(T) THEN "ok" ELSE "failed"
    /\ UNCHANGED <<mirror, mem, held, shimRan>>
    /\ UNCHANGED <<loaderVars, concVars, attachVars>>

\* The body shared by the two shim constructors, on the struct of type T.
ShimConstruct(T) ==
    /\ build = "ok"
    /\ held' = [held EXCEPT ![T] = mem[T]]
    /\ mem' = [mem EXCEPT ![T] = Assign(mem[T], NativeDefault(T))]
    /\ shimRan' = [shimRan EXCEPT ![T] = TRUE]
    /\ UNCHANGED <<mirror, build>>
    /\ UNCHANGED <<loaderVars, concVars, attachVars>>

ImFontConfig_ImFontConfig == ShimConstruct("ImFontConfig")

ImGuiStyle_ImGuiStyle == ShimConstruct("ImGuiStyle")

NextShim ==
    \/ Build
    \/ ImFontConfig_ImFontConfig
    \/ ImGuiStyle_ImGuiStyle

----------------------------------------------------------------------------
(* Window attach wrapper *)

\* "id _Nonnull parent, id _Nonnull child": non-null window handles.
Handles == 1..NumWindows

\* "NSInteger ordered": NSWindowBelow, NSWindowOut, NSWindowAbove.
Orders == {-1, 0, 1}

\* "NSError * _Nullable * _Nullable error": the caller passes no slot or
\* the address of an NSError* variable.
ErrorArgs == {"null", "slot"}

NoTab == [parent |-> 0, ordered |-> 0]
Unset == [domain |-> "", code |-> 0, message |-> ""]
\* The platform operation returned without raising.
NoFault == Unset
NoCall == [parent |-> 0, child |-> 0, ordered |-> 0, error |-> "null", outcome |-> NoFault]

\* The faults the platform operation can raise, by domain, code and message.
Faults ==
    {[domain |-> "NSInternalInconsistencyException", code |-> 1,
      message |-> "window already in a tab group"],
     [domain |-> "NSInvalidArgumentException", code |-> 2,
      message |-> "unsupported window configuration"]}

\* -[NSWindow addTabbedWindow:ordered:]: it returns or raises.
PlatformOutcomes == {NoFault} \cup Faults

\* The tab state after the platform operation has succeeded.
AddTabbedWindow(t, parent, child, ordered) ==
    [t EXCEPT ![child] = [parent |-> parent, ordered |-> ordered]]

\* A wrapper with no handler around the platform call.
SafeAttachNoCatch(outcome, error) ==
    IF outcome = NoFault
    THEN [ret |-> TRUE, err |-> Unset, escaped |-> FALSE]
    ELSE [ret |-> FALSE, err |-> Unset, escaped |-> TRUE]

\* A wrapper that fills the error slot before it tries the call.
SafeAttachEagerError(outcome, error) ==
    IF outcome = NoFault
    THEN [ret |-> TRUE,
          err |-> IF error = "slot"
                  THEN [domain |-> "unknown", code |-> 1, message |-> "unknown"]
                  ELSE Unset,
          escaped |-> FALSE]
    ELSE [ret |-> FALSE,
          err |-> IF error = "slot" THEN outcome ELSE Unset,
          escaped |-> FALSE]

\* GhosttyAddTabbedWindowSafely: the platform call inside a handler. On
\* return: true, error slot untouched. On a fault: false, and the fault's
\* domain, code and message stored through error when it is not null.
SafeAttach(outcome, error) ==
    IF outcome = NoFault
    THEN [ret |-> TRUE, err |-> Unset, escaped |-> FALSE]
    ELSE [ret |-> FALSE,
          err |-> IF error = "slot" THEN outcome ELSE Unset,
          escaped |-> FALSE]

InitAttach ==
    /\ tabs = [w \in Handles |-> NoTab]
    /\ call = NoCall
    /\ ret = FALSE
    /\ errSlot = Unset
    /\ escaped = FALSE

InitAttachIdle == InitAttach

\* One call of the wrapper, the caller's error slot nil at entry.
GhosttyAddTabbedWindowSafely ==
    /\ ~escaped
    /\ \E parent \in Handles, child \in Handles, ordered \in Orders,
          error \in ErrorArgs, outcome \in PlatformOutcomes :
         LET r == SafeAttach(outcome, error)
         IN /\ call' = [parent |-> parent, child |-> child, ordered |-> ordered,
                        error |-> error, outcome |-> outcome]
            /\ tabs' = IF outcome = NoFault
                       THEN AddTabbedWindow(tabs, parent, child, ordered)
                       ELSE tabs
            /\ ret' = r.ret
            /\ errSlot' = r.err
            /\ escaped' = r.escaped
    /\ UNCHANGED <<loaderVars, concVars, shimVars>>

NextAttach == GhosttyAddTabbedWindowSafely

----------------------------------------------------------------------------
(* Serialized calls on the loader table *)

Init == InitLoader /\ InitConc /\ InitShimIdle /\ InitAttachIdle

Next ==
    \/ ImGui_ImplOpenGL3_Init
    \/ ImGui_ImplOpenGL3_ShutdownWithLoaderCleanup

Spec == Init /\ [][Next]_vars

----------------------------------------------------------------------------
(* Unserialized calls: an init call may run between lines 46 and 47 *)

NextConc ==
    \/ ImGui_ImplOpenGL3_Init
    \/ ShutdownEnter
    \/ ShutdownLeave

SpecConc == Init /\ [][NextConc]_vars

----------------------------------------------------------------------------
(* The build and the struct shims *)

InitS == InitLoader /\ InitConc /\ InitShim /\ InitAttachIdle

SpecShim == InitS /\ [][NextShim]_vars

----------------------------------------------------------------------------
(* The window attach wrapper *)

InitA == InitLoader /\ InitConc /\ InitShimIdle /\ InitAttach

SpecAttach == InitA /\ [][NextAttach]_vars

----------------------------------------------------------------------------
(* Properties of the loader table *)

LastCall == hist[Len(hist)]
AfterShutdownReset == hist # << >> /\ LastCall.op = "shutdown"
AfterInit == hist # << >> /\ LastCall.op = "init"
AllNull(t) == \A i \in Slots : t[i] = NULL
FullBody == <<"ImGui_ImplOpenGL3_Shutdown", "memset">>

\* RESET: every slot null. LOADED: some slot set and every set slot an
\* address of the library now open. STALE: a slot holds an address of a
\* library that was closed.
TableState(t, lib) ==
    IF AllNull(t) THEN "RESET"
    ELSE IF HasStale(t, lib) THEN "STALE" ELSE "LOADED"

\* C1: after every call of ImGui_ImplOpenGL3_ShutdownWithLoaderCleanup has
\* returned, every slot of imgl3wProcs is null, whatever the table held at
\* entry and whatever the backend shutdown left in it.
C1_AllNullAfterShutdownReset ==
    AfterShutdownReset => \A i \in Slots : imgl3wProcs[i] = NULL

\* C1 witness: a call that found several non-null entries, which the backend
\* shutdown left in place, has returned with the table all null.
C1_Witness ==
    /\ AfterShutdownReset
    /\ Cardinality(NonNull(preProcs)) >= 2
    /\ NonNull(midProcs) = NonNull(preProcs)
    /\ AllNull(imgl3wProcs)

\* C2: in the sequence init, shutdown-reset, init the second init sees an
\* all-null table, does not skip the loader, and leaves no entry resolved
\* by the first load (or any load before the second): every entry is null or
\* an address of the second load.
C2_ReinitReloads ==
    (/\ Len(hist) >= 3
     /\ hist[Len(hist) - 2].op = "init"
     /\ hist[Len(hist) - 1].op = "shutdown"
     /\ LastCall.op = "init")
    => /\ initObs = "null"
       /\ ~LastCall.skipped
       /\ \A i \in Slots : imgl3wProcs[i] \in {NULL, LastCall.gen}
       /\ hist[Len(hist) - 2].gen # 0 =>
            \A i \in Slots : imgl3wProcs[i] # hist[Len(hist) - 2].gen
       /\ LastCall.gen # 0 =>
            /\ LastCall.gen = libgl
            /\ LastCall.gen > hist[Len(hist) - 2].gen
            /\ NonNull(imgl3wProcs) # {}

\* C2 witness: both inits loaded the library, and the table holds addresses
\* of the second load in every slot.
C2_Witness ==
    /\ Len(hist) >= 3
    /\ hist[Len(hist) - 2].op = "init" /\ hist[Len(hist) - 2].gen # 0
    /\ hist[Len(hist) - 1].op = "shutdown"
    /\ LastCall.op = "init" /\ LastCall.gen # 0
    /\ NonNull(imgl3wProcs) = Slots

\* C3: in every state between calls each entry is null or an address
\* resolved from the library that is open now; none is an address of a
\* library that was closed.
C3_NoStaleEntry ==
    \A i \in Slots : imgl3wProcs[i] = NULL \/ Valid(imgl3wProcs[i], libgl)

\* C3 witness: a library was loaded and closed before, and the table holds
\* addresses of the one loaded after it.
C3_Witness ==
    /\ loads >= 2
    /\ libgl = loads
    /\ NonNull(imgl3wProcs) # {}
    /\ \A i \in NonNull(imgl3wProcs) : Valid(imgl3wProcs[i], libgl)

\* C8: every call of the shim runs the backend shutdown exactly once and
\* then the memset, with no test of the table: whatever the table held at
\* entry, the library is closed and the table is all null at return.
C8_ShutdownThenUnconditionalMemset ==
    AfterShutdownReset =>
        /\ callLog = FullBody
        /\ Cardinality({k \in 1..Len(callLog) : callLog[k] = "ImGui_ImplOpenGL3_Shutdown"}) = 1
        /\ libgl = 0
        /\ TableState(imgl3wProcs, libgl) = "RESET"

\* C8 witness: the shim was called on a table that was already all null
\* and still ran both statements.
C8_Witness ==
    /\ AfterShutdownReset
    /\ AllNull(preProcs)
    /\ Len(hist) >= 2
    /\ hist[Len(hist) - 1].op = "shutdown"
    /\ callLog = FullBody

\* C9: the table is RESET or LOADED; it goes from RESET to LOADED only by an
\* init call that saw an all-null table and loaded the library, from LOADED
\* to RESET only by the shutdown-and-clear call, and an init that skips the
\* load does so only on a table already LOADED with valid addresses.
C9_TableStateMachine ==
    [][/\ TableState(imgl3wProcs', libgl') \in {"RESET", "LOADED"}
       /\ (TableState(imgl3wProcs, libgl) = "RESET"
           /\ TableState(imgl3wProcs', libgl') = "LOADED")
          => /\ hist' # << >>
             /\ hist'[Len(hist')].op = "init"
             /\ ~hist'[Len(hist')].skipped
             /\ initObs' = "null"
             /\ loads' = loads + 1
             /\ hist'[Len(hist')].gen = loads'
       /\ (TableState(imgl3wProcs, libgl) = "LOADED"
           /\ TableState(imgl3wProcs', libgl') = "RESET")
          => /\ hist' # << >>
             /\ hist'[Len(hist')].op = "shutdown"
             /\ callLog' = FullBody
       /\ (hist' # << >> /\ hist'[Len(hist')].op = "init" /\ hist'[Len(hist')].skipped)
          => /\ initObs' = "valid"
             /\ TableState(imgl3wProcs', libgl') = "LOADED"
      ]_vars

\* C9 witness: the table is LOADED for the second time, and the last init
\* skipped the load on it.
C9_Witness ==
    /\ loads >= 2
    /\ AfterInit
    /\ LastCall.skipped
    /\ TableState(imgl3wProcs, libgl) = "LOADED"

\* C10: with no lock in the shim, an init call finds an address of a closed
\* library in the table only if it ran between the backend shutdown and the
\* memset of a shutdown-reset call; an init call that overlaps no such call
\* never does.
C10_StaleSeenOnlyWhenOverlapping ==
    /\ initObs = "stale" => overlapped
    /\ (pcS = "idle" /\ ~crashed) => ~HasStale(imgl3wProcs, libgl)

\* C10 witness: an init call ran between the two statements, found stale
\* non-null entries and skipped the load.
C10_Witness ==
    /\ initObs = "stale"
    /\ overlapped
    /\ AfterInit
    /\ LastCall.skipped

----------------------------------------------------------------------------
(* Properties of the struct shims *)

LayoutsDiffer(T) ==
    \/ mirror[T].size # NativeLayout(T).size
    \/ mirror[T].align # NativeLayout(T).align

\* C6: for both shim constructors, whatever the struct held before the
\* call, after the call it holds the bytes of a default-constructed native
\* struct of its type.
C6_ShimYieldsNativeDefault ==
    \A T \in Types : shimRan[T] => mem[T] = NativeDefault(T)

\* C6 witness: both shims have run on structs that held something else in
\* every byte or in some byte, and both structs now hold the defaults.
C6_Witness ==
    \A T \in Types :
        /\ shimRan[T]
        /\ held[T] # NativeDefault(T)
        /\ held[T][Len(held[T])] # NativeDefault(T)[Len(held[T])]
        /\ mem[T] = NativeDefault(T)

\* C7: if the mirrored and the native struct differ in size or alignment
\* for either type, the build fails and no shim constructor ever runs.
C7_MismatchFailsBuild ==
    (\E T \in Types : LayoutsDiffer(T)) =>
        /\ build \in {"pending", "failed"}
        /\ \A T \in Types : ~shimRan[T]

\* C7 witness: the sizes agree for both types, one alignment differs, and
\* the build has failed.
C7_Witness ==
    /\ \A T \in Types : mirror[T].size = NativeLayout(T).size
    /\ mirror["ImGuiStyle"].align # NativeLayout("ImGuiStyle").align
    /\ build = "failed"

----------------------------------------------------------------------------
(* Properties of the window attach wrapper *)

Called == call.parent # 0
Faulted == Called /\ call.outcome \in Faults
NonEmpty(e) == e.domain # "" /\ e.message # ""

\* C4 as stated: on every call whose platform operation raises, the wrapper
\* returns false, the error output holds the fault's domain, code and
\* message, and no fault reaches the caller.
C4_AsStated ==
    Faulted =>
        /\ ret = FALSE
        /\ ~escaped
        /\ NonEmpty(errSlot)
        /\ errSlot = call.outcome

\* C4 amended: on every call whose platform operation raises, the wrapper
\* returns false and no fault reaches the caller; when the caller passed a
\* non-null error pointer the slot holds the fault's domain, code and
\* message, non-empty; when it passed null nothing is stored.
C4_FaultBecomesResult ==
    Faulted =>
        /\ ret = FALSE
        /\ ~escaped
        /\ call.error = "slot" => (NonEmpty(errSlot) /\ errSlot = call.outcome)
        /\ call.error = "null" => errSlot = Unset

\* C4 witness: a call with an error slot whose platform operation raised
\* has returned false with the descriptor stored, and the tabs untouched.
C4_Witness ==
    /\ Faulted
    /\ call.error = "slot"
    /\ ret = FALSE
    /\ errSlot = call.outcome
    /\ ~escaped

\* C5: on every call with non-null handles whose platform operation
\* succeeds, the wrapper returns true and leaves the error output unset.
C5_SuccessReturnsTrue ==
    (Called /\ call.outcome = NoFault) =>
        /\ ret = TRUE
        /\ errSlot = Unset
        /\ ~escaped

\* C5 witness: a successful call with an error slot has returned true, the
\* child is tabbed with the parent, and the slot is unset.
C5_Witness ==
    /\ Called
    /\ call.outcome = NoFault
    /\ call.error = "slot"
    /\ call.parent # call.child
    /\ tabs[call.child] = [parent |-> call.parent, ordered |-> call.ordered]
    /\ ret = TRUE
    /\ errSlot = Unset

====
